---- MODULE Spec2Model ----
(***************************************************************************)
(* Multi-modal route planning (backend/services/route_planner.py) over the *)
(* node directory (backend/services/db_service.py).                        *)
(*                                                                         *)
(* Units.  Python floats are modelled by scaled integers so that every     *)
(* quantity the planner computes is exact:                                 *)
(*   latitude   : km along one meridian (all nodes share the longitude, so *)
(*                the great-circle distance is the latitude difference)    *)
(*   distance   : 1/10 km                                                  *)
(*   cost       : 1/10000 USD                                              *)
(*   time       : 1/15000 hour                                             *)
(* Strings are sequences of one-character strings, so that lower() and the *)
(* substring test `q in s` are computed, not assumed.                      *)
(***************************************************************************)
EXTENDS Integers, Sequences, FiniteSets, TLC

VARIABLES ports, airports, hashseed, city_sequence, state_sequence,
          num_routes, city_nodes, stack, all_routes, unique_routes, pc,
          scored, first_result, storage, cached, parked, agents, lookups

vars == <<ports, airports, hashseed, city_sequence, state_sequence,
          num_routes, city_nodes, stack, all_routes, unique_routes, pc,
          scored, first_result, storage, cached, parked, agents, lookups>>

\* what a call of compute_routes leaves alone: the directory tables, the string
\* hashing of the interpreter and its own arguments
fixed == <<ports, airports, storage, hashseed, city_sequence, state_sequence, num_routes>>

\* ---------------------------------------------------------------- bounds
MaxIntermediates == 1
MaxNumRoutes == 5

\* ------------------------------------------------------- generic helpers
\* Optional values: None is the empty sequence, a present value x is <<x>>.
None == <<>>

Some(x) == <<x>>

Abs(x) == IF x < 0 THEN -x ELSE x

Min(a, b) == IF a < b THEN a ELSE b

\* s[:n]
Take(s, n) == SubSeq(s, 1, Min(n, Len(s)))

\* [x for x in s if Keep(x)]
Filter(s, Keep(_)) ==
    LET F[i \in 0..Len(s)] ==
            IF i = 0 THEN <<>>
            ELSE IF Keep(s[i]) THEN Append(F[i - 1], s[i]) ELSE F[i - 1]
    IN  F[Len(s)]

\* [F(x) for x in s]
Map(s, F(_)) == [i \in 1..Len(s) |-> F(s[i])]

\* sum(F(x) for x in s), added left to right from 0
SumOver(s, F(_)) ==
    LET A[i \in 0..Len(s)] == IF i = 0 THEN 0 ELSE A[i - 1] + F(s[i])
    IN  A[Len(s)]

\* str.lower() on one character
LowerChar(c) ==
    CASE c = "A" -> "a"
      [] c = "B" -> "b"
      [] c = "C" -> "c"
      [] c = "K" -> "k"
      [] c = "S" -> "s"
      [] c = "T" -> "t"
      [] c = "Z" -> "z"
      [] OTHER -> c

\* str.lower()
Lower(s) == [i \in 1..Len(s) |-> LowerChar(s[i])]

\* the substring test `q in s`
Contains(q, s) ==
    \E i \in 0..(Len(s) - Len(q)) : SubSeq(s, i + 1, i + Len(q)) = q

\* k km, x USD and h hours in the units of the model
Km(k) == 10 * k

Usd(x) == 10000 * x

Hours(h) == 15000 * h

\* `x or ""`
OrEmpty(x) == IF x = None THEN <<>> ELSE x[1]

\* ------------------------------------------------------- node directory
\* Rows of the ports table, in the order SELECT returns them.  Port 1 has no
\* city (NULL) and is found through its name.
PortRows ==
    << [id |-> 1, name |-> <<"S">>,      city |-> None,                state |-> <<"K">>, latitude |-> Some(0)],
       [id |-> 2, name |-> <<"p", "2">>, city |-> Some(<<"A", "b">>),  state |-> <<"T">>, latitude |-> Some(200)],
       [id |-> 3, name |-> <<"p", "3">>, city |-> Some(<<"a", "b">>),  state |-> <<"T">>, latitude |-> Some(210)],
       [id |-> 4, name |-> <<"p", "4">>, city |-> Some(<<"a", "b">>),  state |-> <<"T">>, latitude |-> Some(220)] >>

\* Rows of the airports table.  Airport 3 has no coordinates.
AirportRows ==
    << [id |-> 1, name |-> <<"q", "1">>, city |-> Some(<<"a", "c">>),  state |-> <<"T">>, latitude |-> Some(250)],
       [id |-> 2, name |-> <<"q", "2">>, city |-> Some(<<"a">>),       state |-> <<"K">>, latitude |-> Some(900)],
       [id |-> 3, name |-> <<"q", "3">>, city |-> Some(<<"a">>),       state |-> <<"T">>, latitude |-> None] >>

\* WHERE latitude IS NOT NULL AND longitude IS NOT NULL
HasCoords(r) == r.latitude # None

get_all_ports == Filter(ports, HasCoords)

get_all_airports == Filter(airports, HasCoords)

\* f"port_{id}" / f"airport_{id}"
NodeId(kind, id) == <<kind, id>>

PortNode(p, city) ==
    [id |-> NodeId("port", p.id), name |-> p.name, city |-> city,
     state |-> p.state, lat |-> p.latitude[1], type |-> "port"]

AirportNode(a, city) ==
    [id |-> NodeId("airport", a.id), name |-> a.name, city |-> city,
     state |-> a.state, lat |-> a.latitude[1], type |-> "airport"]

PortNodeAll(p) == PortNode(p, Some(OrEmpty(p.city)))

AirportNodeAll(a) == AirportNode(a, Some(OrEmpty(a.city)))

get_all_nodes == Map(get_all_ports, PortNodeAll) \o Map(get_all_airports, AirportNodeAll)

\* the row test of find_nodes_in_city
RowInCity(r, city_name, state) ==
    /\ \/ Contains(Lower(city_name), Lower(OrEmpty(r.city)))
       \/ Contains(Lower(city_name), Lower(r.name))
    /\ ~(state # None /\ state # Some(<<>>) /\ Lower(state[1]) # Lower(r.state))

find_nodes_in_city(city_name, state) ==
    LET InCity(r) == RowInCity(r, city_name, state)
        AsPort(p) == PortNode(p, p.city)
        AsAirport(a) == AirportNode(a, a.city)
    IN  [ports    |-> Map(Filter(get_all_ports, InCity), AsPort),
         airports |-> Map(Filter(get_all_airports, InCity), AsAirport)]

\* great-circle distance of two points of the same meridian, in 1/10 km
haversine_km(lat1, lat2) == Km(Abs(lat2 - lat1))

RESOLVE_CAP == 10

\* the partial match of the fallback in _resolve_city_nodes
PartialMatch(n, q) ==
    \/ Contains(q, Lower(n.city[1]))
    \/ Contains(q, Lower(n.name))
    \/ Contains(q, Lower(n.state))

_resolve_city_nodes(city_name, state) ==
    LET result == find_nodes_in_city(city_name, state)
        nodes  == result.ports \o result.airports
        Hit(n) == PartialMatch(n, Lower(city_name))
    IN  Take(IF nodes = <<>> THEN Filter(get_all_nodes, Hit) ELSE nodes, RESOLVE_CAP)

\* the calls of the directory made by _resolve_city_nodes(city_name, state)
\* in turn i of the resolution loop: find_nodes_in_city, then get_all_nodes
\* when that found nothing
DirectoryCalls(i, city_name, state) ==
    LET result == find_nodes_in_city(city_name, state)
        Lookup(fn) == [turn |-> i, fn |-> fn, city |-> city_name, state |-> state]
    IN  IF result.ports \o result.airports = <<>>
        THEN <<Lookup("find_nodes_in_city"), Lookup("get_all_nodes")>>
        ELSE <<Lookup("find_nodes_in_city")>>

\* ------------------------------------------------------------ cost model
SEA_COST_PER_KM == 50         \* 0.05 USD per km, in 1/1000 USD
AIR_COST_PER_KM == 500        \* 0.50 USD per km, in 1/1000 USD
INTERMODAL_FLAT == 2000       \* USD
SEA_SPEED_KMH == 30
AIR_SPEED_KMH == 500
INTERMODAL_HOURS == 12
PORT_HANDLING_HR == 6
AIRPORT_HANDLING_HR == 3

\* dist * per_km and dist / speed for a distance in 1/10 km; both are exact
\* (per_km is in 1/1000 USD, and the speeds divide 1500)
TimesCostPerKm(dist, per_km) == dist * per_km

DividedBySpeed(dist, speed) == (dist * 1500) \div speed

\* _segment_cost with the transfer rule for port -> airport only
_segment_cost_OneWayTransfer(n1, n2) ==
    LET dist == haversine_km(n1.lat, n2.lat)
        sea_dist == (dist * 14) \div 10
    IN  IF n1.type = "port" /\ n2.type = "airport" /\ dist < Km(100)
        THEN [mode |-> "intermodal", cost |-> Usd(INTERMODAL_FLAT),
              time_h |-> Hours(INTERMODAL_HOURS), dist |-> dist]
        ELSE IF n1.type = "airport" /\ n2.type = "airport"
        THEN [mode |-> "air", cost |-> TimesCostPerKm(dist, AIR_COST_PER_KM),
              time_h |-> DividedBySpeed(dist, AIR_SPEED_KMH) + Hours(AIRPORT_HANDLING_HR),
              dist |-> dist]
        ELSE IF n1.type = "port" /\ n2.type = "port"
        THEN [mode |-> "sea", cost |-> TimesCostPerKm(sea_dist, SEA_COST_PER_KM),
              time_h |-> DividedBySpeed(sea_dist, SEA_SPEED_KMH) + Hours(PORT_HANDLING_HR),
              dist |-> sea_dist]
        ELSE [mode |-> "air",
              cost |-> TimesCostPerKm(dist, AIR_COST_PER_KM) + Usd(INTERMODAL_FLAT),
              time_h |-> DividedBySpeed(dist, AIR_SPEED_KMH) + Hours(INTERMODAL_HOURS),
              dist |-> dist]

\* _segment_cost pricing a sea leg by the great-circle distance
_segment_cost_SeaUninflated(n1, n2) ==
    LET dist == haversine_km(n1.lat, n2.lat)
        sea_dist == (dist * 14) \div 10
    IN  IF n1.type # n2.type /\ dist < Km(100)
        THEN [mode |-> "intermodal", cost |-> Usd(INTERMODAL_FLAT),
              time_h |-> Hours(INTERMODAL_HOURS), dist |-> dist]
        ELSE IF n1.type = "airport" /\ n2.type = "airport"
        THEN [mode |-> "air", cost |-> TimesCostPerKm(dist, AIR_COST_PER_KM),
              time_h |-> DividedBySpeed(dist, AIR_SPEED_KMH) + Hours(AIRPORT_HANDLING_HR),
              dist |-> dist]
        ELSE IF n1.type = "port" /\ n2.type = "port"
        THEN [mode |-> "sea", cost |-> TimesCostPerKm(dist, SEA_COST_PER_KM),
              time_h |-> DividedBySpeed(sea_dist, SEA_SPEED_KMH) + Hours(PORT_HANDLING_HR),
              dist |-> sea_dist]
        ELSE [mode |-> "air",
              cost |-> TimesCostPerKm(dist, AIR_COST_PER_KM) + Usd(INTERMODAL_FLAT),
              time_h |-> DividedBySpeed(dist, AIR_SPEED_KMH) + Hours(INTERMODAL_HOURS),
              dist |-> dist]

\* _segment_cost with the transfer rule applied to any two near nodes
_segment_cost_NearIsTransfer(n1, n2) ==
    LET dist == haversine_km(n1.lat, n2.lat)
        sea_dist == (dist * 14) \div 10
    IN  IF dist < Km(100)
        THEN [mode |-> "intermodal", cost |-> Usd(INTERMODAL_FLAT),
              time_h |-> Hours(INTERMODAL_HOURS), dist |-> dist]
        ELSE IF n1.type = "airport" /\ n2.type = "airport"
        THEN [mode |-> "air", cost |-> TimesCostPerKm(dist, AIR_COST_PER_KM),
              time_h |-> DividedBySpeed(dist, AIR_SPEED_KMH) + Hours(AIRPORT_HANDLING_HR),
              dist |-> dist]
        ELSE IF n1.type = "port" /\ n2.type = "port"
        THEN [mode |-> "sea", cost |-> TimesCostPerKm(sea_dist, SEA_COST_PER_KM),
              time_h |-> DividedBySpeed(sea_dist, SEA_SPEED_KMH) + Hours(PORT_HANDLING_HR),
              dist |-> sea_dist]
        ELSE [mode |-> "air",
              cost |-> TimesCostPerKm(dist, AIR_COST_PER_KM) + Usd(INTERMODAL_FLAT),
              time_h |-> DividedBySpeed(dist, AIR_SPEED_KMH) + Hours(INTERMODAL_HOURS),
              dist |-> dist]

\* _segment_cost with the threshold test dist <= 100
_segment_cost_ThresholdIncluded(n1, n2) ==
    LET dist == haversine_km(n1.lat, n2.lat)
        sea_dist == (dist * 14) \div 10
    IN  IF n1.type # n2.type /\ dist <= Km(100)
        THEN [mode |-> "intermodal", cost |-> Usd(INTERMODAL_FLAT),
              time_h |-> Hours(INTERMODAL_HOURS), dist |-> dist]
        ELSE IF n1.type = "airport" /\ n2.type = "airport"
        THEN [mode |-> "air", cost |-> TimesCostPerKm(dist, AIR_COST_PER_KM),
              time_h |-> DividedBySpeed(dist, AIR_SPEED_KMH) + Hours(AIRPORT_HANDLING_HR),
              dist |-> dist]
        ELSE IF n1.type = "port" /\ n2.type = "port"
        THEN [mode |-> "sea", cost |-> TimesCostPerKm(sea_dist, SEA_COST_PER_KM),
              time_h |-> DividedBySpeed(sea_dist, SEA_SPEED_KMH) + Hours(PORT_HANDLING_HR),
              dist |-> sea_dist]
        ELSE [mode |-> "air",
              cost |-> TimesCostPerKm(dist, AIR_COST_PER_KM) + Usd(INTERMODAL_FLAT),
              time_h |-> DividedBySpeed(dist, AIR_SPEED_KMH) + Hours(INTERMODAL_HOURS),
              dist |-> dist]

\* _segment_cost timing a long mixed leg by the handling at its origin
_segment_cost_OriginHandling(n1, n2) ==
    LET dist == haversine_km(n1.lat, n2.lat)
        sea_dist == (dist * 14) \div 10
    IN  IF n1.type # n2.type /\ dist < Km(100)
        THEN [mode |-> "intermodal", cost |-> Usd(INTERMODAL_FLAT),
              time_h |-> Hours(INTERMODAL_HOURS), dist |-> dist]
        ELSE IF n1.type = "airport" /\ n2.type = "airport"
        THEN [mode |-> "air", cost |-> TimesCostPerKm(dist, AIR_COST_PER_KM),
              time_h |-> DividedBySpeed(dist, AIR_SPEED_KMH) + Hours(AIRPORT_HANDLING_HR),
              dist |-> dist]
        ELSE IF n1.type = "port" /\ n2.type = "port"
        THEN [mode |-> "sea", cost |-> TimesCostPerKm(sea_dist, SEA_COST_PER_KM),
              time_h |-> DividedBySpeed(sea_dist, SEA_SPEED_KMH) + Hours(PORT_HANDLING_HR),
              dist |-> sea_dist]
        ELSE [mode |-> "air",
              cost |-> TimesCostPerKm(dist, AIR_COST_PER_KM) + Usd(INTERMODAL_FLAT),
              time_h |-> DividedBySpeed(dist, AIR_SPEED_KMH)
                         + Hours(IF n1.type = "port" THEN PORT_HANDLING_HR
                                 ELSE AIRPORT_HANDLING_HR),
              dist |-> dist]

\* (mode, cost_usd, time_hours, distance_km) of the leg n1 -> n2
_segment_cost(n1, n2) ==
    LET dist == haversine_km(n1.lat, n2.lat)
        sea_dist == (dist * 14) \div 10
    IN  IF n1.type # n2.type /\ dist < Km(100)
        THEN [mode |-> "intermodal", cost |-> Usd(INTERMODAL_FLAT),
              time_h |-> Hours(INTERMODAL_HOURS), dist |-> dist]
        ELSE IF n1.type = "airport" /\ n2.type = "airport"
        THEN [mode |-> "air", cost |-> TimesCostPerKm(dist, AIR_COST_PER_KM),
              time_h |-> DividedBySpeed(dist, AIR_SPEED_KMH) + Hours(AIRPORT_HANDLING_HR),
              dist |-> dist]
        ELSE IF n1.type = "port" /\ n2.type = "port"
        THEN [mode |-> "sea", cost |-> TimesCostPerKm(sea_dist, SEA_COST_PER_KM),
              time_h |-> DividedBySpeed(sea_dist, SEA_SPEED_KMH) + Hours(PORT_HANDLING_HR),
              dist |-> sea_dist]
        ELSE [mode |-> "air",
              cost |-> TimesCostPerKm(dist, AIR_COST_PER_KM) + Usd(INTERMODAL_FLAT),
              time_h |-> DividedBySpeed(dist, AIR_SPEED_KMH) + Hours(INTERMODAL_HOURS),
              dist |-> dist]

\* ------------------------------------------------------------ value types
RouteNode(node) ==
    [node_id |-> node.id, name |-> node.name, lat |-> node.lat, node_type |-> node.type]

\* one call of _build_routes_recursive, by its arguments
Call(leg_idx, current_node, segments_so_far, cum_cost, cum_time, cum_dist, visited_ids) ==
    [leg_idx |-> leg_idx, current_node |-> current_node,
     segments_so_far |-> segments_so_far, cum_cost |-> cum_cost,
     cum_time |-> cum_time, cum_dist |-> cum_dist, visited_ids |-> visited_ids]

\* list.sort(key=cost): stable, ascending
SortByCost(s) ==
    LET Insert(t, x) ==
            LET pos == Cardinality({j \in 1..Len(t) : t[j].cost <= x.cost})
            IN  SubSeq(t, 1, pos) \o <<x>> \o SubSeq(t, pos + 1, Len(t))
        R[i \in 0..Len(s)] == IF i = 0 THEN <<>> ELSE Insert(R[i - 1], s[i])
    IN  R[Len(s)]

\* ---------------------------------------------------------------- search
FIRST_CITY_BRANCH == 4
NEXT_CITY_BRANCH == 3

\* list(set(modes)): the order in which a set of strings is listed is fixed by
\* the string hashing of the running interpreter (hashseed)
ListOfSet(S) == LET In(m) == m \in S IN Filter(hashseed, In)

\* terminal case: the PlannedRoute appended to all_routes
\* PlannedRoute without the nominal mode of a route made of transfers
PlannedRoute_NoNominalMode(call) ==
    LET segs  == call.segments_so_far
        modes == ListOfSet({segs[i].transport_mode : i \in 1..Len(segs)} \ {"intermodal"})
    IN  [route_id |-> Len(all_routes) + 1,
         label |-> <<>>,
         segments |-> segs,
         total_cost |-> call.cum_cost,
         total_time_hours |-> call.cum_time,
         total_distance_km |-> call.cum_dist,
         transport_modes_used |-> modes]

PlannedRoute(call) ==
    LET segs  == call.segments_so_far
        modes == ListOfSet({segs[i].transport_mode : i \in 1..Len(segs)} \ {"intermodal"})
    IN  [route_id |-> Len(all_routes) + 1,
         label |-> <<>>,
         segments |-> segs,
         total_cost |-> call.cum_cost,
         total_time_hours |-> call.cum_time,
         total_distance_km |-> call.cum_dist,
         transport_modes_used |-> IF modes = <<>> THEN <<"sea">> ELSE modes]

\* StartCalls leaving the starting node out of the visited set
StartCalls_NotVisited(call, target_nodes) ==
    LET Start(node) ==
            Call(call.leg_idx + 1, Some(node), call.segments_so_far, call.cum_cost,
                 call.cum_time, call.cum_dist, call.visited_ids)
    IN  Map(Take(target_nodes, FIRST_CITY_BRANCH), Start)

\* StartCalls branching into every node of the first city
StartCalls_Uncapped(call, target_nodes) ==
    LET Start(node) ==
            Call(call.leg_idx + 1, Some(node), call.segments_so_far, call.cum_cost,
                 call.cum_time, call.cum_dist, call.visited_ids \cup {node.id})
    IN  Map(target_nodes, Start)

\* first city: one call per starting node, no edge scored
StartCalls(call, target_nodes) ==
    LET Start(node) ==
            Call(call.leg_idx + 1, Some(node), call.segments_so_far, call.cum_cost,
                 call.cum_time, call.cum_dist, call.visited_ids \cup {node.id})
    IN  Map(Take(target_nodes, FIRST_CITY_BRANCH), Start)

\* Candidates left in the order of the city's node list
Candidates_Unsorted(current_node, target_nodes, visited_ids) ==
    LET Unvisited(tgt) == tgt.id \notin visited_ids
        Score(tgt) ==
            LET sc == _segment_cost(current_node, tgt)
            IN  [cost |-> sc.cost, tgt |-> tgt, mode |-> sc.mode,
                 time_h |-> sc.time_h, dist |-> sc.dist]
    IN  Map(Filter(target_nodes, Unvisited), Score)

\* the (cost, tgt, mode, time_h, dist) tuples of the unvisited target nodes, sorted
Candidates(current_node, target_nodes, visited_ids) ==
    LET Unvisited(tgt) == tgt.id \notin visited_ids
        Score(tgt) ==
            LET sc == _segment_cost(current_node, tgt)
            IN  [cost |-> sc.cost, tgt |-> tgt, mode |-> sc.mode,
                 time_h |-> sc.time_h, dist |-> sc.dist]
    IN  SortByCost(Map(Filter(target_nodes, Unvisited), Score))

\* RouteSegment with the leg's own cost and time as the cumulative values
RouteSegment_OwnCumulative(current_node, c, cum_cost, cum_time) ==
    [from_node |-> RouteNode(current_node),
     to_node |-> RouteNode(c.tgt),
     transport_mode |-> c.mode,
     distance_km |-> c.dist,
     cost_usd |-> c.cost,
     time_hours |-> c.time_h,
     cumulative_cost |-> c.cost,
     cumulative_time_hours |-> c.time_h]

\* the RouteSegment of the leg current_node -> c.tgt
RouteSegment(current_node, c, cum_cost, cum_time) ==
    [from_node |-> RouteNode(current_node),
     to_node |-> RouteNode(c.tgt),
     transport_mode |-> c.mode,
     distance_km |-> c.dist,
     cost_usd |-> c.cost,
     time_hours |-> c.time_h,
     cumulative_cost |-> cum_cost + c.cost,
     cumulative_time_hours |-> cum_time + c.time_h]

\* ExtendCall with the distance rollup not extended
ExtendCall_KeepsDist(call, c) ==
    Call(call.leg_idx + 1, Some(c.tgt),
         Append(call.segments_so_far,
                RouteSegment(call.current_node[1], c, call.cum_cost, call.cum_time)),
         call.cum_cost + c.cost, call.cum_time + c.time_h, call.cum_dist,
         call.visited_ids \cup {c.tgt.id})

\* ExtendCall recursing from the node it came from instead of the target
ExtendCall_StaysPut(call, c) ==
    Call(call.leg_idx + 1, call.current_node,
         Append(call.segments_so_far,
                RouteSegment(call.current_node[1], c, call.cum_cost, call.cum_time)),
         call.cum_cost + c.cost, call.cum_time + c.time_h, call.cum_dist + c.dist,
         call.visited_ids \cup {c.tgt.id})

\* the recursive call made for candidate c
ExtendCall(call, c) ==
    Call(call.leg_idx + 1, Some(c.tgt),
         Append(call.segments_so_far,
                RouteSegment(call.current_node[1], c, call.cum_cost, call.cum_time)),
         call.cum_cost + c.cost, call.cum_time + c.time_h, call.cum_dist + c.dist,
         call.visited_ids \cup {c.tgt.id})

\* ExtendCalls turning a path without candidates into a terminal call
ExtendCalls_KeepsDeadEnd(call, target_nodes) ==
    LET Ext(c) == ExtendCall(call, c)
        cands  == Candidates(call.current_node[1], target_nodes, call.visited_ids)
    IN  IF cands = <<>> THEN <<[call EXCEPT !.leg_idx = Len(city_sequence)]>>
        ELSE Map(Take(cands, NEXT_CITY_BRANCH), Ext)

\* ExtendCalls branching into the cheapest four
ExtendCalls_FourWide(call, target_nodes) ==
    LET Ext(c) == ExtendCall(call, c)
    IN  Map(Take(Candidates(call.current_node[1], target_nodes, call.visited_ids),
                 NEXT_CITY_BRANCH + 1), Ext)

\* subsequent city: one call per candidate among the cheapest
ExtendCalls(call, target_nodes) ==
    LET Ext(c) == ExtendCall(call, c)
    IN  Map(Take(Candidates(call.current_node[1], target_nodes, call.visited_ids),
                 NEXT_CITY_BRANCH), Ext)

\* --------------------------------------------------------------- ranking
\* the sort keyed by total time instead of total cost
SortByTotalTime(routes) ==
    LET Insert(t, x) ==
            LET pos == Cardinality({j \in 1..Len(t) :
                                      t[j].total_time_hours <= x.total_time_hours})
            IN  SubSeq(t, 1, pos) \o <<x>> \o SubSeq(t, pos + 1, Len(t))
        R[i \in 0..Len(routes)] == IF i = 0 THEN <<>> ELSE Insert(R[i - 1], routes[i])
    IN  R[Len(routes)]

\* all_routes.sort(key=lambda r: r.total_cost): stable, ascending
SortByTotalCost(routes) ==
    LET Insert(t, x) ==
            LET pos == Cardinality({j \in 1..Len(t) : t[j].total_cost <= x.total_cost})
            IN  SubSeq(t, 1, pos) \o <<x>> \o SubSeq(t, pos + 1, Len(t))
        R[i \in 0..Len(routes)] == IF i = 0 THEN <<>> ELSE Insert(R[i - 1], routes[i])
    IN  R[Len(routes)]

\* "|".join(from ids) + "|" + last to id: the ids are free of "|", so the joined
\* string is the sequence of ids
NodeSequence(r) ==
    LET FromId(seg) == seg.from_node.node_id
    IN  Map(r.segments, FromId) \o
        (IF r.segments # <<>> THEN <<r.segments[Len(r.segments)].to_node.node_id>> ELSE <<>>)

\* the loop without the seen_sequences test
UniqueIndices_NoSeen(sorted, n) ==
    LET D[i \in 0..Len(sorted)] ==
            IF i = 0 THEN [unique |-> <<>>, stop |-> FALSE]
            ELSE LET prev == D[i - 1]
                 IN  IF prev.stop THEN prev
                     ELSE [unique |-> Append(prev.unique, i),
                           stop |-> Len(prev.unique) + 1 >= n]
    IN  D[Len(sorted)].unique

\* the deduplication loop over the sorted routes, with its break: the indices
\* (into the sorted list) of the routes appended to unique_routes, in order
UniqueIndices(sorted, n) ==
    LET D[i \in 0..Len(sorted)] ==
            IF i = 0 THEN [seen |-> {}, unique |-> <<>>, stop |-> FALSE]
            ELSE LET prev == D[i - 1]
                     seq  == NodeSequence(sorted[i])
                 IN  IF prev.stop \/ seq \in prev.seen THEN prev
                     ELSE [seen |-> prev.seen \cup {seq},
                           unique |-> Append(prev.unique, i),
                           stop |-> Len(prev.unique) + 1 >= n]
    IN  D[Len(sorted)].unique

labels ==
    << <<"Best Route (Lowest Cost)">>, <<"Alternative", 1>>,
       <<"Alternative", 2>>, <<"Alternative", 3>> >>

\* Label numbering the alternatives past the named ones by rank
Label_ByRank(i) == IF i < Len(labels) THEN labels[i + 1] ELSE <<"Alternative", i + 1>>

\* labels[i] if i < len(labels) else f"Alternative {i}", i counted from 0
Label(i) == IF i < Len(labels) THEN labels[i + 1] ELSE <<"Alternative", i>>

\* r.route_id = i + 1; r.label = ... for the i-th kept route, i counted from 0
Relabel(r, i) == [r EXCEPT !.route_id = i + 1, !.label = Label(i)]

\* UniqueRoutes ranking by total time
UniqueRoutes_ByTime(routes, n) ==
    LET sorted == SortByTotalTime(routes)
        kept   == UniqueIndices(sorted, n)
    IN  [k \in 1..Len(kept) |-> Relabel(sorted[kept[k]], k - 1)]

\* UniqueRoutes keeping the candidates in the order of their enumeration
UniqueRoutes_Unsorted(routes, n) ==
    LET sorted == routes
        kept   == UniqueIndices(sorted, n)
    IN  [k \in 1..Len(kept) |-> Relabel(sorted[kept[k]], k - 1)]

\* the list compute_routes returns
UniqueRoutes(routes, n) ==
    LET sorted == SortByTotalCost(routes)
        kept   == UniqueIndices(sorted, n)
    IN  [k \in 1..Len(kept) |-> Relabel(sorted[kept[k]], k - 1)]

\* all_routes after the call: sorted in place, the kept routes relabelled in place
RankedAll(routes, n) ==
    LET sorted == SortByTotalCost(routes)
        kept   == UniqueIndices(sorted, n)
    IN  [i \in 1..Len(sorted) |->
            IF \E k \in 1..Len(kept) : kept[k] = i
            THEN Relabel(sorted[i], (CHOOSE k \in 1..Len(kept) : kept[k] = i) - 1)
            ELSE sorted[i]]

\* ------------------------------------------------------------ the agents
\* DISRUPTION_DATA.get(location, DEFAULT_DISRUPTION), the entries of two
\* locations and the default
get_disruption(location) ==
    CASE location = "Chennai" -> [active |-> TRUE,  type |-> "Customs Delay", extra_delay_days |-> 2]
      [] location = "Kochi"   -> [active |-> FALSE, type |-> "None", extra_delay_days |-> 0]
      [] OTHER                -> [active |-> FALSE, type |-> "None", extra_delay_days |-> 0]

\* the disruption part of _get_location_risks: live data in mode 'realtime',
\* the table else; live is the extra delay the live source reports
_get_location_risks(location, mode, live) ==
    IF mode = "realtime"
    THEN [active |-> live > 0, type |-> "Live", extra_delay_days |-> live]
    ELSE get_disruption(location)

\* the segment report of a stop
StopSegment(prev_location, stop, mode, live) ==
    LET d == _get_location_risks(stop.stop_name, mode, live)
    IN  [from_location |-> prev_location, to_location |-> stop.stop_name,
         eta_days |-> stop.eta_days, delay_days |-> stop.delay_days + d.extra_delay_days,
         disruption_type |-> d.type, disruption_active |-> d.active]

EtaOf(seg) == seg.eta_days

DelayOf(seg) == seg.delay_days

run_monitoring_agent(product_id, origin, destination, stops, mode, live) ==
    LET PrevOf(i) == IF i = 1 THEN origin ELSE stops[i - 1].stop_name
        reports == [i \in 1..Len(stops) |-> StopSegment(PrevOf(i), stops[i], mode, live)]
        prev_location == IF stops = <<>> THEN origin ELSE stops[Len(stops)].stop_name
        d == _get_location_risks(destination, mode, live)
        segments ==
            IF prev_location # destination
            THEN Append(reports,
                     [from_location |-> prev_location, to_location |-> destination,
                      eta_days |-> IF stops # <<>> THEN stops[Len(stops)].eta_days ELSE 1,
                      delay_days |-> 0 + d.extra_delay_days,
                      disruption_type |-> d.type, disruption_active |-> d.active])
            ELSE reports
        total_eta == SumOver(segments, EtaOf)
        total_delay == SumOver(segments, DelayOf)
    IN  [product_id |-> product_id, origin |-> origin, destination |-> destination,
         segments |-> segments, total_eta |-> total_eta, total_delay |-> total_delay,
         total_transit_days |-> total_eta + total_delay]

MOCK_UNIT_PRICE == 100

\* inventory is the row get_inventory found for the product, or None
run_risk_agent(monitoring, inventory) ==
    LET row == IF inventory = None THEN [stock |-> 0, daily_demand |-> 1] ELSE inventory[1]
        stock == row.stock
        daily_demand == row.daily_demand
        stockout_days == IF daily_demand > 0 THEN stock \div daily_demand ELSE 999
        shipment_arrival_days == monitoring.total_transit_days
        disruption_risk == shipment_arrival_days > stockout_days
        lost_units == IF disruption_risk
                      THEN (shipment_arrival_days - stockout_days) * daily_demand ELSE 0
        revenue_loss == IF disruption_risk THEN lost_units * MOCK_UNIT_PRICE ELSE 0
    IN  [product_id |-> monitoring.product_id, stock |-> stock,
         daily_demand |-> daily_demand, stockout_days |-> stockout_days,
         shipment_arrival_days |-> shipment_arrival_days,
         disruption_risk |-> disruption_risk, lost_units |-> lost_units,
         revenue_loss |-> revenue_loss, unit_price |-> MOCK_UNIT_PRICE,
         risk_level |-> IF ~disruption_risk THEN "LOW"
                        ELSE IF revenue_loss > 50000 THEN "CRITICAL"
                        ELSE IF revenue_loss > 20000 THEN "HIGH"
                        ELSE "MEDIUM"]

RecoveryOption(option_name, cost, projected_loss, timeline_days) ==
    [option_name |-> option_name, cost |-> cost, projected_loss |-> projected_loss,
     total_impact |-> cost + projected_loss, timeline_days |-> timeline_days]

run_planner_agent(risk) ==
    LET air_units == Min(200, risk.daily_demand * risk.shipment_arrival_days)
    IN  [product_id |-> risk.product_id,
         options |-> << RecoveryOption("Wait for Shipment", 0, risk.revenue_loss,
                                       risk.shipment_arrival_days),
                        RecoveryOption("Partial Air Shipment", air_units * 250, 0, 2),
                        RecoveryOption("Alternate Supplier", 30000,
                                       risk.daily_demand * risk.unit_price, 3) >>]

\* min(options, key=lambda o: o.total_impact): the first of the least
FirstLeast(options) ==
    LET i == CHOOSE i \in 1..Len(options) :
                 /\ \A j \in 1..Len(options) : options[i].total_impact <= options[j].total_impact
                 /\ \A j \in 1..(i - 1) : options[j].total_impact > options[i].total_impact
    IN  options[i]

run_decision_agent(risk, planner) ==
    LET best_option == FirstLeast(planner.options)
    IN  [product_id |-> planner.product_id,
         simulations |-> [i \in 1..Len(planner.options) |->
                             [option_name |-> planner.options[i].option_name,
                              total_impact |-> planner.options[i].total_impact,
                              chosen |-> planner.options[i].option_name = best_option.option_name]],
         chosen_option |-> best_option]

\* the parameters of run_agent_pipeline
PipelineParameters == {"product_id", "origin", "destination", "stops"}

\* the keyword arguments with which run_agents calls run_agent_pipeline
RunAgentsKeywords == {"product_id", "origin", "destination", "stops", "mode"}

\* the default of the mode parameter of run_monitoring_agent
DEFAULT_MODE == "simulation"

\* no request to the agents
NoRequest == [stage |-> "idle"]

\* ------------------------------------------------------------ the inputs
CityNames == { <<"s">>, <<"a">>, <<"A", "B">>, <<"z">>, <<"k">>, <<"c">> }

StateHints == { None, Some(<<"t">>) }

HashSeeds == { <<"sea", "air">>, <<"air", "sea">> }

SeqsUpTo(S, n) == UNION { [1..k -> S] : k \in 0..n }

\* lines 196-198 of compute_routes
Arguments(source_city, dest_city, intermediate_cities, source_state, dest_state, n) ==
    /\ city_sequence = <<source_city>> \o intermediate_cities \o <<dest_city>>
    /\ state_sequence = <<source_state>> \o [i \in 1..Len(intermediate_cities) |-> None]
                           \o <<dest_state>>
    /\ num_routes = n

\* the database file is readable and nothing has been fetched yet
Healthy == storage = "up" /\ cached = FALSE

\* get_all_ports() / get_all_airports() raise: the query is run, which
\* happens when lru_cache holds no earlier answer, and the database cannot
\* be read
DirectoryFails == storage = "down" /\ ~cached

Fresh ==
    /\ agents = NoRequest
    /\ lookups = <<>>
    /\ scored = None
    /\ first_result = None
    /\ parked = None
    /\ city_nodes = <<>>
    /\ stack = <<>>
    /\ all_routes = <<>>
    /\ unique_routes = <<>>
    /\ pc = "resolve"

\* the default of the num_routes parameter
DEFAULT_NUM_ROUTES == 4

\* the cities tried as intermediate stops
MidNames == { <<"s">>, <<"a">>, <<"A", "B">>, <<"z">> }

\* any request without intermediate stops
InitDirect ==
    /\ ports = PortRows
    /\ airports = AirportRows
    /\ hashseed \in HashSeeds
    /\ \E src \in CityNames, dst \in CityNames, ss \in StateHints, ds \in StateHints,
          n \in 0..MaxNumRoutes :
            Arguments(src, dst, <<>>, ss, ds, n)
    /\ Healthy
    /\ Fresh

\* requests with 1..MaxIntermediates intermediate stops, without state hints
InitVia ==
    /\ ports = PortRows
    /\ airports = AirportRows
    /\ hashseed \in HashSeeds
    /\ \E src \in CityNames, dst \in CityNames,
          mid \in SeqsUpTo(MidNames, MaxIntermediates) \ {<<>>},
          n \in {1, DEFAULT_NUM_ROUTES} :
            Arguments(src, dst, mid, None, None, n)
    /\ Healthy
    /\ Fresh

\* requests with two and three intermediate stops in the same city
InitLong ==
    /\ ports = PortRows
    /\ airports = AirportRows
    /\ hashseed \in HashSeeds
    /\ \E mid \in { <<<<"a">>, <<"a", "b">>>>, <<<<"a">>, <<"a", "b">>, <<"a", "b">>>> },
          n \in {1, DEFAULT_NUM_ROUTES} :
            Arguments(<<"s">>, <<"a", "b">>, mid, None, None, n)
    /\ Healthy
    /\ Fresh

\* a ports table in which the row of port 3 comes twice, so that the directory
\* lists the same node twice for its city
PortRowsTwice == PortRows \o <<PortRows[3]>>

InitTwice ==
    /\ ports = PortRowsTwice
    /\ airports = AirportRows
    /\ hashseed \in HashSeeds
    /\ \E src \in MidNames, dst \in MidNames, mid \in SeqsUpTo({<<"A", "B">>}, MaxIntermediates),
          n \in 0..MaxNumRoutes :
            Arguments(src, dst, mid, None, None, n)
    /\ Healthy
    /\ Fresh

Init == InitDirect \/ InitVia \/ InitLong

\* direct requests to a process whose database may be unreadable and which
\* may have fetched the tables before
InitOutage ==
    /\ ports = PortRows
    /\ airports = AirportRows
    /\ hashseed \in HashSeeds
    /\ storage \in {"up", "down"}
    /\ cached \in BOOLEAN
    /\ \E src \in CityNames, dst \in CityNames :
            Arguments(src, dst, <<>>, None, None, DEFAULT_NUM_ROUTES)
    /\ Fresh

\* the state of a call of compute_routes(source_city, dest_city, ...) that has
\* been made by another thread and has not run yet
Invocation(source_city, dest_city, intermediate_cities, n) ==
    [city_sequence  |-> <<source_city>> \o intermediate_cities \o <<dest_city>>,
     state_sequence |-> [i \in 1..Len(intermediate_cities) + 2 |-> None],
     num_routes     |-> n,
     city_nodes     |-> <<>>,
     stack          |-> <<>>,
     all_routes     |-> <<>>,
     unique_routes  |-> <<>>,
     pc             |-> "resolve",
     lookups        |-> <<>>,
     preempted      |-> FALSE]

\* the cities between which two threads ask for routes at the same time
PairNames == { <<"s">>, <<"k">> }

\* two calls in one process, one running and one waiting for the processor
InitPair ==
    /\ ports = PortRows
    /\ airports = AirportRows
    /\ hashseed \in HashSeeds
    /\ Healthy
    /\ agents = NoRequest
    /\ lookups = <<>>
    /\ scored = None
    /\ first_result = None
    /\ city_nodes = <<>>
    /\ stack = <<>>
    /\ all_routes = <<>>
    /\ unique_routes = <<>>
    /\ pc = "resolve"
    /\ \E src \in PairNames, dst \in {<<"a">>, <<"k">>} :
            Arguments(src, dst, <<>>, None, None, DEFAULT_NUM_ROUTES)
    /\ \E src \in PairNames, mid \in SeqsUpTo({<<"s">>}, 1) :
            parked = Some(Invocation(src, <<"a">>, mid, 2))

\* requests with one intermediate stop, to be made a second time
InitAgain ==
    /\ ports = PortRows
    /\ airports = AirportRows
    /\ hashseed \in HashSeeds
    /\ \E src \in CityNames, dst \in CityNames, mid \in MidNames :
            Arguments(src, dst, <<mid>>, None, None, DEFAULT_NUM_ROUTES)
    /\ Healthy
    /\ Fresh

\* the latitudes (km) of the nodes an edge is scored between: distances of
\* 0, 1, 2, 98..101 and several hundred km occur
EdgeLatitudes == {0, 1, 99, 100, 101, 750}

EdgeNode(type, lat) ==
    [id |-> NodeId(type, lat), name |-> <<>>, city |-> None, state |-> <<>>,
     lat |-> lat, type |-> type]

\* one call of _segment_cost on any two nodes, outside any request
InitEdge ==
    /\ ports = PortRows
    /\ airports = AirportRows
    /\ hashseed = <<"sea", "air">>
    /\ Arguments(<<"s">>, <<"s">>, <<>>, None, None, DEFAULT_NUM_ROUTES)
    /\ city_nodes = <<>>
    /\ stack = <<>>
    /\ all_routes = <<>>
    /\ unique_routes = <<>>
    /\ pc = "score"
    /\ agents = NoRequest
    /\ lookups = <<>>
    /\ first_result = None
    /\ parked = None
    /\ Healthy
    /\ \E t1 \in {"port", "airport"}, t2 \in {"port", "airport"},
          l1 \in EdgeLatitudes, l2 \in EdgeLatitudes :
            scored = [n1 |-> EdgeNode(t1, l1), n2 |-> EdgeNode(t2, l2), result |-> None]

\* the stops of a shipment: none, or one stop
RouteStops ==
    {<<>>} \cup { <<[stop_name |-> name, eta_days |-> eta, delay_days |-> delay]>> :
                      name \in {"Chennai", "Kochi"}, eta \in {2, 6}, delay \in {0, 1} }

\* the inventory rows a product can have; None for a product not listed
Inventories ==
    { None, Some([stock |-> 100, daily_demand |-> 20]),
      Some([stock |-> 600, daily_demand |-> 10]) }

\* a POST /run-agents request, or a call of run_agent_pipeline with its own
\* parameters, for a shipment from Kochi
InitAgents ==
    /\ ports = PortRows
    /\ airports = AirportRows
    /\ hashseed = <<"sea", "air">>
    /\ Arguments(<<"s">>, <<"s">>, <<>>, None, None, DEFAULT_NUM_ROUTES)
    /\ Healthy
    /\ scored = None /\ first_result = None /\ parked = None /\ lookups = <<>>
    /\ city_nodes = <<>> /\ stack = <<>> /\ all_routes = <<>> /\ unique_routes = <<>>
    /\ pc = "agents"
    /\ \E entry \in {"POST /run-agents", "run_agent_pipeline"},
          mode \in {"simulation", "realtime"},
          destination \in {"Chennai", "Kochi"},
          stops \in RouteStops,
          inventory \in Inventories :
            agents = [stage |-> "request", entry |-> entry,
                      request |-> [product_id |-> "P1", origin |-> "Kochi",
                                   destination |-> destination, stops |-> stops,
                                   mode |-> mode],
                      inventory |-> inventory, live |-> 1,
                      trace |-> <<>>, monitoring_mode |-> None,
                      monitoring |-> None, risk |-> None, planner |-> None,
                      decision |-> None, response |-> None]

\* ----------------------------------------------------------- the actions
\* one turn of the resolution loop (lines 202-207)
ResolveCity ==
    /\ pc = "resolve"
    /\ Len(city_nodes) < Len(city_sequence)
    /\ ~DirectoryFails
    /\ LET i     == Len(city_nodes) + 1
           city  == city_sequence[i]
           nodes == _resolve_city_nodes(city, state_sequence[i])
       IN  /\ city_nodes' = Append(city_nodes,
                                   IF nodes = <<>> THEN _resolve_city_nodes(city, None)
                                   ELSE nodes)
           /\ lookups' = lookups \o DirectoryCalls(i, city, state_sequence[i])
                                 \o (IF nodes = <<>> THEN DirectoryCalls(i, city, None)
                                     ELSE <<>>)
    /\ cached' = TRUE
    /\ UNCHANGED <<fixed, scored, first_result, parked, agents, stack, all_routes,
                   unique_routes, pc>>

\* ResolveFails taking the failure for a city without nodes
ResolveFails_AsNoNodes ==
    /\ pc = "resolve"
    /\ Len(city_nodes) < Len(city_sequence)
    /\ DirectoryFails
    /\ city_nodes' = Append(city_nodes, <<>>)
    /\ UNCHANGED <<fixed, scored, first_result, parked, agents, lookups, cached, stack, all_routes,
                   unique_routes, pc>>

\* a turn of the resolution loop in which the directory raises: nothing in
\* _resolve_city_nodes or compute_routes catches it, the call ends there
ResolveFails ==
    /\ pc = "resolve"
    /\ Len(city_nodes) < Len(city_sequence)
    /\ DirectoryFails
    /\ pc' = "raised"
    /\ UNCHANGED <<fixed, scored, first_result, parked, agents, lookups, cached, city_nodes, stack, all_routes,
                   unique_routes>>

\* _build_routes_recursive(0, None, [], 0.0, 0.0, 0.0, set()) (line 298)
BeginSearch ==
    /\ pc = "resolve"
    /\ Len(city_nodes) = Len(city_sequence)
    /\ stack' = <<Call(0, None, <<>>, 0, 0, 0, {})>>
    /\ pc' = "search"
    /\ UNCHANGED <<fixed, scored, first_result, parked, agents, lookups, cached, city_nodes, all_routes, unique_routes>>

\* a call with leg_idx >= len(city_sequence) (lines 226-237)
Terminal ==
    /\ pc = "search"
    /\ stack # <<>>
    /\ Head(stack).leg_idx >= Len(city_sequence)
    /\ all_routes' = Append(all_routes, PlannedRoute(Head(stack)))
    /\ stack' = Tail(stack)
    /\ UNCHANGED <<fixed, scored, first_result, parked, agents, lookups, cached, city_nodes, unique_routes, pc>>

\* a call at the first city (lines 241-255); the calls it makes run before
\* the calls still pending
PickStart ==
    /\ pc = "search"
    /\ stack # <<>>
    /\ Head(stack).leg_idx < Len(city_sequence)
    /\ Head(stack).current_node = None
    /\ stack' = StartCalls(Head(stack), city_nodes[Head(stack).leg_idx + 1]) \o Tail(stack)
    /\ UNCHANGED <<fixed, scored, first_result, parked, agents, lookups, cached, city_nodes, all_routes, unique_routes, pc>>

\* Extend resolving the target city again for the branch
Extend_Requeries ==
    /\ pc = "search"
    /\ stack # <<>>
    /\ Head(stack).leg_idx < Len(city_sequence)
    /\ Head(stack).current_node # None
    /\ stack' = ExtendCalls(Head(stack), city_nodes[Head(stack).leg_idx + 1]) \o Tail(stack)
    /\ lookups' = lookups \o DirectoryCalls(Head(stack).leg_idx + 1,
                                             city_sequence[Head(stack).leg_idx + 1], None)
    /\ UNCHANGED <<fixed, scored, first_result, parked, agents, cached, city_nodes,
                   all_routes, unique_routes, pc>>

\* Extend taking its candidates from the city the path is in, not the next
Extend_SameCity ==
    /\ pc = "search"
    /\ stack # <<>>
    /\ Head(stack).leg_idx < Len(city_sequence)
    /\ Head(stack).current_node # None
    /\ stack' = ExtendCalls(Head(stack), city_nodes[Head(stack).leg_idx]) \o Tail(stack)
    /\ UNCHANGED <<fixed, scored, first_result, parked, agents, lookups, cached, city_nodes,
                   all_routes, unique_routes, pc>>

\* a call at a subsequent city (lines 257-296)
Extend ==
    /\ pc = "search"
    /\ stack # <<>>
    /\ Head(stack).leg_idx < Len(city_sequence)
    /\ Head(stack).current_node # None
    /\ stack' = ExtendCalls(Head(stack), city_nodes[Head(stack).leg_idx + 1]) \o Tail(stack)
    /\ UNCHANGED <<fixed, scored, first_result, parked, agents, lookups, cached, city_nodes, all_routes, unique_routes, pc>>

\* sort, deduplicate, label and return (lines 300-323)
Rank ==
    /\ pc = "search"
    /\ stack = <<>>
    /\ unique_routes' = UniqueRoutes(all_routes, num_routes)
    /\ all_routes' = RankedAll(all_routes, num_routes)
    /\ pc' = "done"
    /\ UNCHANGED <<fixed, scored, first_result, parked, agents, lookups, cached, city_nodes, stack>>

\* _segment_cost(n1, n2)
ScoreEdge ==
    /\ pc = "score"
    /\ scored' = [scored EXCEPT !.result = Some(_segment_cost(scored.n1, scored.n2))]
    /\ pc' = "scored"
    /\ UNCHANGED <<fixed, first_result, parked, agents, lookups, cached, city_nodes, stack,
                   all_routes, unique_routes>>

\* the same call made once more, by an interpreter started anew or not: the
\* arguments and the tables are those of the first call, the iteration order
\* of a set of strings is that of the interpreter serving the call
Reinvoke ==
    /\ pc = "done"
    /\ first_result = None
    /\ first_result' = Some(unique_routes)
    /\ hashseed' \in HashSeeds
    /\ city_nodes' = <<>>
    /\ stack' = <<>>
    /\ all_routes' = <<>>
    /\ unique_routes' = <<>>
    /\ lookups' = <<>>
    /\ pc' = "resolve"
    /\ UNCHANGED <<ports, airports, storage, cached, city_sequence, state_sequence,
                   num_routes, scored, parked, agents>>

\* Switch with all_routes a list of the module, shared by the calls
Switch_SharedRoutes ==
    /\ parked # None
    /\ pc \in {"resolve", "search", "done"}
    /\ parked[1].pc # "done"
    /\ city_sequence' = parked[1].city_sequence
    /\ state_sequence' = parked[1].state_sequence
    /\ num_routes' = parked[1].num_routes
    /\ city_nodes' = parked[1].city_nodes
    /\ stack' = parked[1].stack
    /\ all_routes' = all_routes
    /\ unique_routes' = parked[1].unique_routes
    /\ pc' = parked[1].pc
    /\ lookups' = parked[1].lookups
    /\ parked' = Some([city_sequence  |-> city_sequence,
                       state_sequence |-> state_sequence,
                       num_routes     |-> num_routes,
                       city_nodes     |-> city_nodes,
                       stack          |-> stack,
                       all_routes     |-> all_routes,
                       unique_routes  |-> unique_routes,
                       pc             |-> pc,
                       lookups        |-> lookups,
                       preempted      |-> parked[1].preempted \/ pc = "search"])
    /\ UNCHANGED <<ports, airports, storage, cached, hashseed, scored, first_result, agents>>

\* the interpreter hands the processor to the other thread: the locals of
\* the running call (lines 196-216 and the frames of the recursion) are set
\* aside and those of the waiting call come back; the cached tables, the
\* database and the interpreter are the same for both
Switch ==
    /\ parked # None
    /\ pc \in {"resolve", "search", "done"}
    /\ parked[1].pc # "done"
    /\ city_sequence' = parked[1].city_sequence
    /\ state_sequence' = parked[1].state_sequence
    /\ num_routes' = parked[1].num_routes
    /\ city_nodes' = parked[1].city_nodes
    /\ stack' = parked[1].stack
    /\ all_routes' = parked[1].all_routes
    /\ unique_routes' = parked[1].unique_routes
    /\ pc' = parked[1].pc
    /\ lookups' = parked[1].lookups
    /\ parked' = Some([city_sequence  |-> city_sequence,
                       state_sequence |-> state_sequence,
                       num_routes     |-> num_routes,
                       city_nodes     |-> city_nodes,
                       stack          |-> stack,
                       all_routes     |-> all_routes,
                       unique_routes  |-> unique_routes,
                       pc             |-> pc,
                       lookups        |-> lookups,
                       preempted      |-> parked[1].preempted \/ pc = "search"])
    /\ UNCHANGED <<ports, airports, storage, cached, hashseed, scored, first_result, agents>>

\* everything but the agents
routing == <<ports, airports, storage, cached, hashseed, city_sequence, state_sequence,
             num_routes, city_nodes, stack, all_routes, unique_routes, pc, scored,
             first_result, parked, lookups>>

\* run_agents (main.py lines 106-124): the call of run_agent_pipeline with
\* the handler's keyword arguments; a keyword the callee does not have is a
\* TypeError, which the handler turns into HTTP 500
RunAgents ==
    /\ agents.stage = "request"
    /\ agents.entry = "POST /run-agents"
    /\ IF RunAgentsKeywords \subseteq PipelineParameters
       THEN agents' = [agents EXCEPT !.stage = "pipeline"]
       ELSE agents' = [agents EXCEPT !.stage = "responded",
                                     !.response = Some([status_code |-> 500, success |-> FALSE])]
    /\ UNCHANGED routing

\* run_agent_pipeline(product_id, origin, destination, stops) called with
\* its own parameters
CallPipeline ==
    /\ agents.stage = "request"
    /\ agents.entry = "run_agent_pipeline"
    /\ agents' = [agents EXCEPT !.stage = "pipeline"]
    /\ UNCHANGED routing

\* stage 1 (pipeline.py lines 67-89): run_monitoring_agent without a mode
MonitoringStage ==
    /\ agents.stage = "pipeline"
    /\ agents' = [agents EXCEPT
                     !.stage = "monitored",
                     !.trace = Append(@, "monitoring"),
                     !.monitoring_mode = Some(DEFAULT_MODE),
                     !.monitoring = Some(run_monitoring_agent(
                                        agents.request.product_id, agents.request.origin,
                                        agents.request.destination, agents.request.stops,
                                        DEFAULT_MODE, agents.live))]
    /\ UNCHANGED routing

\* stage 2 (pipeline.py lines 91-111)
RiskStage ==
    /\ agents.stage = "monitored"
    /\ agents' = [agents EXCEPT
                     !.stage = "assessed",
                     !.trace = Append(@, "risk"),
                     !.risk = Some(run_risk_agent(agents.monitoring[1], agents.inventory))]
    /\ UNCHANGED routing

\* stage 3 (pipeline.py lines 113-126)
PlannerStage ==
    /\ agents.stage = "assessed"
    /\ agents' = [agents EXCEPT
                     !.stage = "planned",
                     !.trace = Append(@, "planner"),
                     !.planner = Some(run_planner_agent(agents.risk[1]))]
    /\ UNCHANGED routing

\* stage 4 (pipeline.py lines 128-144)
DecisionStage ==
    /\ agents.stage = "planned"
    /\ agents' = [agents EXCEPT
                     !.stage = "decided",
                     !.trace = Append(@, "decision"),
                     !.decision = Some(run_decision_agent(agents.risk[1], agents.planner[1]))]
    /\ UNCHANGED routing

\* the combined output (pipeline.py lines 156-161), which run_agents wraps
\* in its answer (main.py line 122)
Respond ==
    /\ agents.stage = "decided"
    /\ LET result == [monitoring |-> agents.monitoring[1], risk |-> agents.risk[1],
                      planner |-> agents.planner[1], decision |-> agents.decision[1]]
       IN  agents' = [agents EXCEPT
                        !.stage = "responded",
                        !.response = Some([status_code |-> 200, success |-> TRUE,
                                           data |-> result, mode |-> agents.request.mode])]
    /\ UNCHANGED routing

Next == ResolveCity \/ BeginSearch \/ Terminal \/ PickStart \/ Extend \/ Rank

Spec == Init /\ [][Next]_vars

SpecTwice == InitTwice /\ [][Next]_vars

NextAgain == Next \/ Reinvoke

SpecAgain == InitAgain /\ [][NextAgain]_vars

NextPair == Next \/ Switch

SpecPair == InitPair /\ [][NextPair]_vars

\* the nodes of every city of the sequence (lines 200-207)
ResolveAll(cities, states) ==
    [i \in 1..Len(cities) |->
        LET nodes == _resolve_city_nodes(cities[i], states[i])
        IN  IF nodes = <<>> THEN _resolve_city_nodes(cities[i], None) ELSE nodes]

\* the candidates the recursion appends, the pending calls taken first to last
RECURSIVE BuildRoutes(_, _, _)
BuildRoutes(nodes, pending, routes) ==
    IF pending = <<>> THEN routes
    ELSE LET call == Head(pending)
         IN  IF call.leg_idx >= Len(nodes)
             THEN BuildRoutes(nodes, Tail(pending),
                      Append(routes, [PlannedRoute(call) EXCEPT !.route_id = Len(routes) + 1]))
             ELSE IF call.current_node = None
             THEN BuildRoutes(nodes, StartCalls(call, nodes[call.leg_idx + 1]) \o Tail(pending),
                              routes)
             ELSE BuildRoutes(nodes, ExtendCalls(call, nodes[call.leg_idx + 1]) \o Tail(pending),
                              routes)

\* the value of a call of compute_routes that runs from start to end
compute_routes(cities, states, n) ==
    UniqueRoutes(BuildRoutes(ResolveAll(cities, states),
                             <<Call(0, None, <<>>, 0, 0, 0, {})>>, <<>>), n)

NextOutage == Next \/ ResolveFails

SpecOutage == InitOutage /\ [][NextOutage]_vars

\* what plan_routes answers once compute_routes has returned or raised
plan_routes ==
    IF pc = "raised" THEN [status_code |-> 500, success |-> FALSE, total_routes_found |-> 0]
    ELSE [status_code |-> 200, success |-> TRUE, total_routes_found |-> Len(unique_routes)]

NextAgents ==
    \/ RunAgents \/ CallPipeline \/ MonitoringStage \/ RiskStage \/ PlannerStage
    \/ DecisionStage \/ Respond

SpecAgents == InitAgents /\ [][NextAgents]_vars

NextEdge == ScoreEdge

SpecEdge == InitEdge /\ [][NextEdge]_vars

\* ------------------------------------------------------------ the claims
Returned == pc = "done"

Routes == {unique_routes[i] : i \in 1..Len(unique_routes)}

CostOf(seg) == seg.cost_usd

TimeOf(seg) == seg.time_hours

DistanceOf(seg) == seg.distance_km

\* the nodes a route passes: the origin of segment 0, then every destination
PathIds(r) ==
    IF r.segments = <<>> THEN <<>>
    ELSE <<r.segments[1].from_node.node_id>> \o
         [i \in 1..Len(r.segments) |-> r.segments[i].to_node.node_id]

\* C1: every returned route's total cost, time and distance are the sums of
\* its segments' cost, time and distance.
C1_TotalsAreSums ==
    Returned =>
        \A r \in Routes :
            /\ r.total_cost = SumOver(r.segments, CostOf)
            /\ r.total_time_hours = SumOver(r.segments, TimeOf)
            /\ r.total_distance_km = SumOver(r.segments, DistanceOf)

\* a returned route of several segments, one by sea (scaled distance) and one not
C1_Witness ==
    /\ Returned
    /\ \E r \in Routes :
          /\ Len(r.segments) >= 2
          /\ \E i, j \in 1..Len(r.segments) :
                r.segments[i].transport_mode = "sea" /\ r.segments[j].transport_mode # "sea"

\* C2: in every returned route, each segment ends at the node the next one
\* starts from.
C2_SegmentsChain ==
    Returned =>
        \A r \in Routes : \A i \in 1..(Len(r.segments) - 1) :
            r.segments[i].to_node.node_id = r.segments[i + 1].from_node.node_id

\* a returned route of three segments
C2_Witness == Returned /\ \E r \in Routes : Len(r.segments) >= 3

\* C3: when a city of the sequence resolves to no node, the call reports an
\* outcome naming that city, distinguishable from the empty list it returns
\* when every city resolved and no path was found.  The returned list is the
\* only thing the call reports, so the list must then differ from the empty one.
Unresolved == {i \in 1..Len(city_nodes) : city_nodes[i] = <<>>}

C3_UnresolvableCityReported ==
    (Returned /\ Unresolved # {}) => unique_routes # <<>>

\* the empty list returned although every city resolved
C3_NoRouteFound == Returned /\ Unresolved = {} /\ unique_routes = <<>>

\* the distinct node sequences among the candidates
CandidateSequences == {NodeSequence(all_routes[i]) : i \in 1..Len(all_routes)}

\* C4: for every num_routes N, 0 included, the call returns min(N, number of
\* distinct candidate node sequences) routes.
C4_ReturnsMinOfNAndDistinct ==
    Returned => Len(unique_routes) = Min(num_routes, Cardinality(CandidateSequences))

\* whether cities i.. can be passed through pairwise distinct nodes outside used
RECURSIVE Completable(_, _)
Completable(i, used) ==
    \/ i > Len(city_nodes)
    \/ \E k \in 1..Len(city_nodes[i]) :
          /\ city_nodes[i][k].id \notin used
          /\ Completable(i + 1, used \cup {city_nodes[i][k].id})

\* C5: with num_routes >= 1, the call returns at least one route whenever
\* pairwise distinct nodes, one of each city in order, exist.
C5_EmptyOnlyIfNoSequence ==
    (Returned /\ num_routes >= 1 /\ Completable(1, {})) => unique_routes # <<>>

\* C6: the returned list is in non-decreasing order of total_cost.
C6_SortedByTotalCost ==
    Returned =>
        \A i \in 1..(Len(unique_routes) - 1) :
            unique_routes[i].total_cost <= unique_routes[i + 1].total_cost

\* three routes returned in increasing cost, the cheaper ones being the slower
C6_Witness ==
    /\ Returned
    /\ Len(unique_routes) >= 3
    /\ \A i \in 1..2 :
          /\ unique_routes[i].total_cost < unique_routes[i + 1].total_cost
          /\ unique_routes[i].total_time_hours > unique_routes[i + 1].total_time_hours

\* C7: no two returned routes pass the same sequence of nodes, also when the
\* directory lists a node twice for a city.
C7_NoSharedNodeSequence ==
    Returned =>
        \A i, j \in 1..Len(unique_routes) :
            PathIds(unique_routes[i]) = PathIds(unique_routes[j]) => i = j

\* a city lists a node twice, two candidates pass the same sequence, and
\* routes are returned
C7_Witness ==
    /\ Returned
    /\ Len(unique_routes) >= 2
    /\ \E c \in 1..Len(city_nodes) : \E k, l \in 1..Len(city_nodes[c]) :
          k # l /\ city_nodes[c][k].id = city_nodes[c][l].id
    /\ \E i, j \in 1..Len(all_routes) :
          i # j /\ NodeSequence(all_routes[i]) = NodeSequence(all_routes[j])

\* the starting nodes the search branched into
Starts == LET first == Take(city_nodes[1], FIRST_CITY_BRANCH)
          IN  {first[k].id : k \in 1..Len(first)}

\* C8: every returned route has one segment per city after the first.
C8_OneSegmentPerLeg ==
    Returned => \A r \in Routes : Len(r.segments) = Len(city_sequence) - 1

\* routes are returned for a request with an intermediate stop, while a path
\* from some starting node dead-ended (no candidate starts there)
C8_Witness ==
    /\ Returned
    /\ Len(city_sequence) >= 3
    /\ unique_routes # <<>>
    /\ \E st \in Starts : \A i \in 1..Len(all_routes) : PathIds(all_routes[i])[1] # st

\* C9: in every returned route each segment's cumulative cost and time are the
\* previous segment's cumulative values (zero before segment 0) plus its own.
C9_CumulativeChain ==
    Returned =>
        \A r \in Routes : \A i \in 1..Len(r.segments) :
            LET prev_cost == IF i = 1 THEN 0 ELSE r.segments[i - 1].cumulative_cost
                prev_time == IF i = 1 THEN 0 ELSE r.segments[i - 1].cumulative_time_hours
            IN  /\ r.segments[i].cumulative_cost = prev_cost + r.segments[i].cost_usd
                /\ r.segments[i].cumulative_time_hours = prev_time + r.segments[i].time_hours

\* a returned route whose second segment carries a non-zero previous cumulative
C9_Witness ==
    /\ Returned
    /\ \E r \in Routes :
          /\ Len(r.segments) >= 2
          /\ r.segments[1].cumulative_cost > 0
          /\ r.segments[2].cumulative_cost > r.segments[2].cost_usd

\* C10: the nodes of every returned route are pairwise distinct.
C10_NoNodeRevisited ==
    Returned =>
        \A r \in Routes : \A i, j \in 1..Len(PathIds(r)) :
            PathIds(r)[i] = PathIds(r)[j] => i = j

\* a returned route passes a city whose list holds a node the route already
\* visited, the starting node among them
C10_Witness ==
    /\ Returned
    /\ \E r \in Routes : \E c \in 2..Len(city_nodes) : \E k \in 1..Len(city_nodes[c]) :
          /\ Len(PathIds(r)) >= c
          /\ city_nodes[c][k].id = PathIds(r)[1]

\* an edge has been scored: its two nodes, its great-circle distance in km
\* and the tuple returned
Scored == pc = "scored"

EdgeKm == Abs(scored.n1.lat - scored.n2.lat)

EdgeTypes == {scored.n1.type, scored.n2.type}

\* C11: two nodes of different types less than 100 km apart are scored
\* 'intermodal', cost exactly 2000 USD, time exactly 12 h, distance the raw
\* great-circle distance.
C11_NearMixedIsIntermodal ==
    (Scored /\ scored.n1.type # scored.n2.type /\ EdgeKm < 100) =>
        scored.result[1] = [mode |-> "intermodal", cost |-> 2000 * 10000,
                            time_h |-> 12 * 15000, dist |-> 10 * EdgeKm]

\* an airport and a port 99 km apart, in this order, have been scored
C11_Witness ==
    /\ Scored
    /\ scored.n1.type = "airport" /\ scored.n2.type = "port"
    /\ EdgeKm = 99

\* C12: two ports d km apart, for any d, are scored 'sea' with cost 1.4*d*0.05
\* USD and time 1.4*d/30 + 6 h.
C12_SeaInflated ==
    (Scored /\ EdgeTypes = {"port"}) =>
        /\ scored.result[1].mode = "sea"
        /\ scored.result[1].cost = 700 * EdgeKm             \* 0.07 USD per km
        /\ 3 * scored.result[1].time_h = 3 * 6 * 15000 + 2100 * EdgeKm  \* 1.4d/30 h

\* two ports less than 100 km apart, and two ports further apart, are scored
C12_Witness == Scored /\ EdgeTypes = {"port"} /\ EdgeKm = 98

\* C13: two airports d km apart, for any d, are scored 'air' with cost d*0.50
\* USD, time d/500 + 3 h and distance d.
C13_AirToAir ==
    (Scored /\ EdgeTypes = {"airport"}) =>
        scored.result[1] = [mode |-> "air", cost |-> 5000 * EdgeKm,
                            time_h |-> 3 * 15000 + 30 * EdgeKm, dist |-> 10 * EdgeKm]

\* two airports 1 km apart have been scored
C13_Witness == Scored /\ EdgeTypes = {"airport"} /\ EdgeKm = 1

\* C14: a port and an airport, in either order, d >= 100 km apart are scored
\* 'air' with cost d*0.50 + 2000 USD and time d/500 + 12 h, never 'intermodal'.
C14_MixedLongHaul ==
    (Scored /\ scored.n1.type # scored.n2.type /\ EdgeKm >= 100) =>
        /\ scored.result[1].mode = "air"
        /\ scored.result[1].cost = 5000 * EdgeKm + 2000 * 10000
        /\ scored.result[1].time_h = 30 * EdgeKm + 12 * 15000

\* an airport and a port exactly 100 km apart have been scored
C14_Witness ==
    /\ Scored
    /\ scored.n1.type = "airport" /\ scored.n2.type = "port"
    /\ EdgeKm = 100

\* the modes of the segments of route r
SegmentModes(r) == {r.segments[i].transport_mode : i \in 1..Len(r.segments)}

\* the elements of the list r.transport_modes_used
ModesUsed(r) == {r.transport_modes_used[i] : i \in 1..Len(r.transport_modes_used)}

\* C15: for every returned route, transport_modes_used is exactly the set of
\* its segments' modes without 'intermodal', each once, and ['sea'] when that
\* set is empty; it is never empty and never contains 'intermodal'.
C15_ModesUsed ==
    Returned =>
        \A p \in 1..Len(unique_routes) :
            LET r == unique_routes[p]
                carried == SegmentModes(r) \ {"intermodal"}
            IN  /\ Len(r.transport_modes_used) = Cardinality(ModesUsed(r))
                /\ ModesUsed(r) = IF carried = {} THEN {"sea"} ELSE carried
                /\ r.transport_modes_used # <<>>
                /\ "intermodal" \notin ModesUsed(r)

\* a returned route made of transfers only
C15_Witness ==
    /\ Returned
    /\ \E p \in 1..Len(unique_routes) :
           /\ SegmentModes(unique_routes[p]) = {"intermodal"}
           /\ unique_routes[p].transport_modes_used = <<"sea">>

\* C16: the returned route at position p has route_id p; position 1 is
\* labelled 'Best Route (Lowest Cost)' and position p > 1 'Alternative (p-1)',
\* also past the four named labels.
C16_IdsAndLabels ==
    Returned =>
        \A p \in 1..Len(unique_routes) :
            /\ unique_routes[p].route_id = p
            /\ unique_routes[p].label =
                   IF p = 1 THEN <<"Best Route (Lowest Cost)">>
                            ELSE <<"Alternative", p - 1>>

\* five routes are returned, one more than there are named labels
C16_Witness ==
    /\ Returned
    /\ Len(unique_routes) = 5
    /\ unique_routes[5].label = <<"Alternative", 4>>

\* the origin city is the destination city and there is no intermediate
SameCityRequest ==
    /\ Len(city_sequence) = 2
    /\ city_sequence[1] = city_sequence[2]
    /\ state_sequence[1] = state_sequence[2]

\* C17: when the origin city equals the destination city with no
\* intermediates, nodes of the same type are not next hops of each other: no
\* returned route has a 'sea' or 'air' segment between two distinct nodes of
\* the same type of that city.
C17_SameCityNoSameTypeLeg ==
    (Returned /\ SameCityRequest) =>
        \A p \in 1..Len(unique_routes) :
            \A i \in 1..Len(unique_routes[p].segments) :
                LET seg == unique_routes[p].segments[i]
                IN  ~ /\ seg.transport_mode \in {"sea", "air"}
                      /\ seg.from_node.node_type = seg.to_node.node_type
                      /\ seg.from_node.node_id # seg.to_node.node_id

\* the nodes of the k-th city of the request
NodesOf(k) == {city_nodes[k][j] : j \in 1..Len(city_nodes[k])}

\* the nodes of the origin city the search branches into
BranchedOrigins ==
    LET first == Take(city_nodes[1], FIRST_CITY_BRANCH)
    IN  {first[j] : j \in 1..Len(first)}

KmBetween(u, v) == Abs(u.lat - v.lat)

\* a two-city request for four routes, each city with a port, and no origin
\* node within 100 km of a destination node of the other type
PortToPortRequest ==
    /\ Len(city_sequence) = 2
    /\ num_routes = 4
    /\ \A k \in {1, 2} : \E u \in NodesOf(k) : u.type = "port"
    /\ \A u \in NodesOf(1), v \in NodesOf(2) :
           ~(u.type # v.type /\ KmBetween(u, v) < 100)

\* the rank-1 route is one 'sea' segment
BestIsPureSea ==
    /\ unique_routes # <<>>
    /\ Len(unique_routes[1].segments) = 1
    /\ unique_routes[1].segments[1].transport_mode = "sea"
    /\ unique_routes[1].transport_modes_used = <<"sea">>

\* C18 as stated: for such a request the rank-1 route is a pure sea itinerary
\* and there are at most 4 routes, wherever the ports and airports lie.
C18_BestIsSeaAnywhere ==
    (Returned /\ PortToPortRequest) =>
        /\ Len(unique_routes) <= 4
        /\ unique_routes # <<>> => BestIsPureSea

\* cost of a leg in 1/10000 USD by the tariff: 0.05 USD per km over 1.4 times
\* the distance between ports, else 0.50 USD per km, plus 2000 USD when the
\* types differ
TariffOf(u, v) ==
    IF u.type = "port" /\ v.type = "port" THEN 700 * KmBetween(u, v)
    ELSE IF u.type = v.type THEN 5000 * KmBetween(u, v)
    ELSE 5000 * KmBetween(u, v) + 20000000

\* some port the search starts from has a sea leg to another port of the
\* destination that is cheaper than every leg that is not port to port
SeaLegIsCheapest ==
    \E u \in BranchedOrigins, v \in NodesOf(2) :
        /\ u.type = "port" /\ v.type = "port" /\ u.id # v.id
        /\ \A u2 \in BranchedOrigins, v2 \in NodesOf(2) :
               (u2.id # v2.id /\ ~(u2.type = "port" /\ v2.type = "port")) =>
                   TariffOf(u, v) < TariffOf(u2, v2)

\* C18 (amended): for such a request there are at most 4 routes, and the
\* rank-1 route is a pure sea itinerary whenever a sea leg from a branched
\* origin port to a distinct destination port is cheaper than every leg
\* that is not port to port.
C18_BestIsSeaWhenCheapest ==
    (Returned /\ PortToPortRequest) =>
        /\ Len(unique_routes) <= 4
        /\ SeaLegIsCheapest => BestIsPureSea

\* such a request has returned, legs by air competed, and the best is by sea
C18_Witness ==
    /\ Returned /\ PortToPortRequest /\ SeaLegIsCheapest
    /\ BestIsPureSea
    /\ \E i \in 1..Len(all_routes) : all_routes[i].transport_modes_used = <<"air">>

\* C19: two invocations with the same arguments and the same directory return
\* identical lists: the same routes in the same order, with the same
\* segments, totals, ids, labels and transport_modes_used lists.
C19_SameResultAgain ==
    (Returned /\ first_result # None) => unique_routes = first_result[1]

\* C20: a failure of the node directory during resolution leaves
\* compute_routes as a failure: no node list is recorded for the city, the
\* call never returns a list of routes, and the caller answers with an error
\* instead of a success carrying zero routes.
C20_FailurePropagates ==
    /\ DirectoryFails =>
           /\ city_nodes = <<>>
           /\ ~Returned
           /\ pc \in {"resolve", "raised"}
    /\ pc = "raised" =>
           /\ DirectoryFails
           /\ unique_routes = <<>> /\ all_routes = <<>>
           /\ plan_routes.status_code = 500 /\ ~plan_routes.success
    /\ Returned => plan_routes.status_code = 200

\* the call has ended in the directory's failure
C20_Witness == pc = "raised" /\ storage = "down" /\ ~cached /\ city_nodes = <<>>

\* C21: under any interleaving of two invocations, each returns exactly the
\* result it returns when run alone.
C21_IndependentInvocations ==
    /\ (parked # None /\ Returned) =>
           unique_routes = compute_routes(city_sequence, state_sequence, num_routes)
    /\ (parked # None /\ parked[1].pc = "done") =>
           parked[1].unique_routes =
               compute_routes(parked[1].city_sequence, parked[1].state_sequence,
                              parked[1].num_routes)

\* both calls have returned routes, different ones, each after having been
\* interrupted in the middle of its search
C21_Witness ==
    /\ parked # None
    /\ Returned /\ parked[1].pc = "done"
    /\ parked[1].preempted
    /\ unique_routes # <<>> /\ parked[1].unique_routes # <<>>
    /\ unique_routes # parked[1].unique_routes
    /\ Len(parked[1].all_routes) > 0

\* C22: a POST /run-agents request with a valid payload runs monitoring,
\* risk, planner and decision in this order and is answered with success and
\* the combined output of the four agents, in either mode; the requested
\* mode reaches the monitoring agent.
C22_RunAgentsSucceeds ==
    (agents.stage = "responded" /\ agents.entry = "POST /run-agents") =>
        /\ agents.response[1].success
        /\ agents.response[1].status_code = 200
        /\ agents.trace = <<"monitoring", "risk", "planner", "decision">>
        /\ agents.monitoring_mode = Some(agents.request.mode)

\* the routes generated before ranking (all_routes holds them all, sorted,
\* once the call has returned)
Generated == {all_routes[i] : i \in 1..Len(all_routes)}

\* cost in 1/10000 USD of a leg between a node of type t1 at latitude l1 and
\* a node of type t2 at latitude l2, by the tariff
LegCost(t1, l1, t2, l2) ==
    LET km == Abs(l1 - l2)
    IN  IF t1 # t2 /\ km < 100 THEN 20000000
        ELSE IF t1 = "port" /\ t2 = "port" THEN 700 * km
        ELSE IF t1 = t2 THEN 5000 * km
        ELSE 5000 * km + 20000000

\* the ids of the first k nodes of route r
Prefix(r, k) == SubSeq(PathIds(r), 1, k)

\* the nodes of the city of leg i (the i+1st city) not on the first i nodes of r
UnvisitedAt(r, i) ==
    {v \in NodesOf(i + 1) : \A k \in 1..i : PathIds(r)[k] # v.id}

\* C23: in every generated route each segment's destination is an unvisited
\* node of the target city with fewer than 3 unvisited nodes of that city
\* cheaper to reach from the segment's origin; and the last city is branched
\* into min(3, number of unvisited nodes) times from every path reaching it.
C23_CheapestThree ==
    Returned =>
        \A r \in Generated :
            /\ \A i \in 1..Len(r.segments) :
                   LET seg  == r.segments[i]
                       from == seg.from_node
                       Cost(v) == LegCost(from.node_type, from.lat, v.type, v.lat)
                   IN  /\ \E v \in UnvisitedAt(r, i) : v.id = seg.to_node.node_id
                       /\ Cardinality({v \in UnvisitedAt(r, i) :
                              Cost(v) < LegCost(from.node_type, from.lat,
                                                seg.to_node.node_type, seg.to_node.lat)}) < 3
                       /\ seg.cost_usd = LegCost(from.node_type, from.lat,
                                                 seg.to_node.node_type, seg.to_node.lat)
            /\ LET last == Len(r.segments)
               IN  last >= 1 =>
                       Cardinality({q \in Generated : Prefix(q, last) = Prefix(r, last)})
                           = Min(3, Cardinality(UnvisitedAt(r, last)))

\* a route was generated through a city with more than 3 unvisited nodes,
\* whose cheapest 3 are not its first 3
C23_Witness ==
    /\ Returned
    /\ \E r \in Generated :
           \E i \in 1..Len(r.segments) :
               /\ Cardinality(UnvisitedAt(r, i)) > 3
               /\ \E j \in 4..Len(city_nodes[i + 1]) :
                      city_nodes[i + 1][j].id = r.segments[i].to_node.node_id

\* the ids of the first four entries of the source city's node list
FirstFour == {city_nodes[1][j].id : j \in 1..Min(4, Len(city_nodes[1]))}

\* C24: the start node of every generated route is one of the first 4
\* entries of the source city's resolved list, in which ports come before
\* airports; the call made for a start node carries no segment and no cost,
\* and a route has no segment for its start.
C24_FirstFourStarts ==
    /\ \A k \in 1..Len(stack) :
           stack[k].leg_idx = 1 =>
               /\ stack[k].current_node[1].id \in FirstFour
               /\ stack[k].segments_so_far = <<>>
               /\ stack[k].cum_cost = 0 /\ stack[k].cum_time = 0 /\ stack[k].cum_dist = 0
    /\ \A r \in Generated :
           /\ Len(r.segments) = Len(city_sequence) - 1
           /\ r.segments[1].from_node.node_id \in FirstFour
           /\ r.segments[1].cumulative_cost = r.segments[1].cost_usd
           /\ r.segments[1].cumulative_time_hours = r.segments[1].time_hours
    /\ \A c \in 1..Len(city_nodes) :
           \A i, j \in 1..Len(city_nodes[c]) :
               (city_nodes[c][i].type = "airport" /\ city_nodes[c][j].type = "port") => j < i

\* routes were generated from a source city of five nodes, four of them
\* starts, the fifth able to reach the destination
C24_Witness ==
    /\ Returned
    /\ Len(city_nodes[1]) > 4
    /\ {r.segments[1].from_node.node_id : r \in Generated} = FirstFour
    /\ Cardinality(FirstFour) = 4
    /\ \E v \in NodesOf(2) : v.id # city_nodes[1][5].id

\* 3 to the power k
PowerOfThree(k) ==
    LET P[i \in 0..k] == IF i = 0 THEN 1 ELSE 3 * P[i - 1]
    IN  P[k]

\* the number of cities after the first one
SubsequentCities == Len(city_sequence) - 1

\* C25 as stated: the number of candidate routes generated is at most
\* 4 x 3^(s - 1), s the number of cities after the first one.
C25_BoundOneLevelShort ==
    Len(all_routes) <= 4 * PowerOfThree(SubsequentCities - 1)

\* C25 (amended): the number of candidate routes generated is at most
\* 4 x 3^s, s the number of cities after the first one (12 for a two-city
\* request), and the candidates are one per terminal path: no two of them
\* follow the same nodes.
C25_BoundFourTimesThreeToS ==
    /\ Len(all_routes) <= 4 * PowerOfThree(SubsequentCities)
    /\ \A i, j \in 1..Len(all_routes) :
           PathIds(all_routes[i]) = PathIds(all_routes[j]) => i = j

\* a two-city request has generated 12 candidates
C25_Witness ==
    /\ Returned
    /\ SubsequentCities = 1
    /\ Len(all_routes) = 12

\* the node-id sequences of the returned routes
ReturnedSequences == {PathIds(r) : r \in Routes}

\* C26: every generated candidate whose node-id sequence is not among the
\* returned routes costs at least as much as every returned route; each
\* returned route is a candidate, and a cheapest one among the candidates
\* with its sequence.
C26_CheapestUniqueKept ==
    Returned =>
        /\ \A c \in Generated :
               PathIds(c) \notin ReturnedSequences =>
                   \A r \in Routes : c.total_cost >= r.total_cost
        /\ \A r \in Routes :
               /\ \E c \in Generated :
                      c.segments = r.segments /\ c.total_cost = r.total_cost
               /\ \A c \in Generated :
                      PathIds(c) = PathIds(r) => r.total_cost <= c.total_cost

\* several routes are returned, a dearer candidate of another sequence was
\* left out, and a candidate repeating a returned sequence was dropped
C26_Witness ==
    /\ Returned
    /\ Len(unique_routes) >= 2
    /\ \E c \in Generated :
           /\ PathIds(c) \notin ReturnedSequences
           /\ \A r \in Routes : c.total_cost > r.total_cost
    /\ \E i, j \in 1..Len(all_routes) :
           /\ i # j
           /\ PathIds(all_routes[i]) = PathIds(all_routes[j])
           /\ PathIds(all_routes[i]) \in ReturnedSequences

\* the exact lookup of the i-th city of the sequence finds no node
ExactLookupEmpty(i) ==
    LET result == find_nodes_in_city(city_sequence[i], state_sequence[i])
    IN  result.ports \o result.airports = <<>>

\* the directory functions called in turn i of the resolution loop
CalledInTurn(i) == {lookups[k].fn : k \in {k \in 1..Len(lookups) : lookups[k].turn = i}}

\* C27: when the exact lookup for a city yields zero nodes, the nearest-nodes
\* lookup has been made for that city by the time the call returns.
C27_NearestNodesTried ==
    Returned =>
        \A i \in 1..Len(city_sequence) :
            ExactLookupEmpty(i) => "find_nearest_nodes" \in CalledInTurn(i)

\* the number of find_nodes_in_city calls made in turn i
ResolutionsOf(i) ==
    Cardinality({k \in 1..Len(lookups) :
                    lookups[k].turn = i /\ lookups[k].fn = "find_nodes_in_city"})

\* _resolve_city_nodes(city_sequence[i], state_sequence[i]) finds no node
FirstResolutionEmpty(i) == _resolve_city_nodes(city_sequence[i], state_sequence[i]) = <<>>

\* C28: every directory lookup of a call is made before the recursive search
\* starts: each city is resolved once, or twice when its first resolution is
\* empty, and no step of the search or of the ranking makes a lookup.
C28_LookupsBeforeSearch ==
    /\ [](pc \in {"search", "done"} =>
            \A i \in 1..Len(city_sequence) :
                ResolutionsOf(i) = IF FirstResolutionEmpty(i) THEN 2 ELSE 1)
    /\ [][(pc \in {"search", "done"}) => (lookups' = lookups)]_vars

\* the search has branched (a call from a start node is pending), after a
\* city was resolved twice and another once
C28_Witness ==
    /\ pc = "search"
    /\ stack # <<>>
    /\ Head(stack).current_node # None
    /\ \E i, j \in 1..Len(city_sequence) : ResolutionsOf(i) = 2 /\ ResolutionsOf(j) = 1

\* the ids of the nodes resolved for the i-th city of the sequence
ResolvedIds(i) == {city_nodes[i][j].id : j \in 1..Len(city_nodes[i])}

\* C29: every returned route has one node per city of the sequence, and for
\* every position i its i-th node (the origin of the first segment, then the
\* destination of each segment) is in the node list resolved for the i-th city
\* of source, intermediates in the given order, destination.
C29_CitiesInOrder ==
    Returned =>
        \A r \in Routes :
            /\ Len(PathIds(r)) = Len(city_sequence)
            /\ \A i \in 1..Len(PathIds(r)) : PathIds(r)[i] \in ResolvedIds(i)

\* a route through an intermediate stop was returned, the three cities having
\* no node in common
C29_Witness ==
    /\ Returned
    /\ Len(city_sequence) = 3
    /\ unique_routes # <<>>
    /\ \A i, j \in 1..3 : i # j => ResolvedIds(i) \cap ResolvedIds(j) = {}

\* C30: the leg n1 -> n2 is scored with the mode, cost, time and distance of
\* the leg n2 -> n1, for any two nodes.
C30_ScoringSymmetric ==
    Scored => scored.result[1] = _segment_cost(scored.n2, scored.n1)

\* a port and an airport 750 km apart, in this order, have been scored
C30_Witness ==
    /\ Scored
    /\ scored.n1.type = "port" /\ scored.n2.type = "airport"
    /\ EdgeKm = 750

====
